---- MODULE Spec2Model ----
(***************************************************************************)
(* Rwanda Infrastructure Management System (src/main.cpp).                 *)
(*                                                                         *)
(* The state is the one RwandaInfrastructure object: the city list and the *)
(* two square matrices.  Every public mutating method is an operator from  *)
(* a graph to a graph plus the returned bool and the printed message; an   *)
(* action applies one method call and records the call and its outcome.    *)
(* Budgets are doubles in the source; here they are integers counting      *)
(* hundredths of a billion RWF (28.6 is 2860), which keeps every comparison *)
(* the code makes (budget < 0, == 0, equality of stored values) exact.      *)
(* Matrix positions are 0-based as in the source; At/Put translate to the  *)
(* 1-based sequences of TLA+.                                              *)
(***************************************************************************)
EXTENDS Integers, Sequences, FiniteSets, TLC

VARIABLES
    cities,        \* vector<City>: sequence of [index, name]
    roadMatrix,    \* vector<vector<int>>
    budgetMatrix,  \* vector<vector<double>>, in hundredths
    pc,            \* "new" after the constructor, "seeding" inside loadInitialData, "ready" after
    seedStep,      \* number of calls loadInitialData has made so far
    op,            \* the method of the last call ("none" before any call)
    city1,         \* its first name argument (name / city1 / oldName)
    city2,         \* its second name argument (city2 / newName)
    budget,        \* its budget argument
    idx,           \* its index argument (searchCityByIndex)
    ret,           \* the bool it returned
    out,           \* the message it printed
    found,         \* the city searchCityByIndex printed, as a sequence of at most one City
    cityFile,      \* cities.txt as last written
    roadFile,      \* roads.txt as last written
    failuresLeft,  \* how many more times opening a file for writing may fail
    numCities,     \* main, case 1: the number of names asked for by the last command
    addedCount     \* main, case 1: the number of them addCity accepted

vars == <<cities, roadMatrix, budgetMatrix, pc, seedStep,
          op, city1, city2, budget, idx, ret, out, found,
          cityFile, roadFile, failuresLeft, numCities, addedCount>>

----------------------------------------------------------------------------
(* Bounds of the model *)

\* largest budget an operator call passes, in hundredths; calls pass -1..MaxBudget
MaxBudget == 2

\* the names operator calls pass: two seeded cities joined by a seeded road, and one new name
InputNames == {"Kigali", "Muhanga", "Gisenyi"}

Budgets == -1 .. MaxBudget

\* largest number of cities one add-cities command of the menu asks for
MaxAddCount == 2

\* how many opens of a snapshot file may fail in one run of the program
MaxOpenFailures == 1

\* the names typed at the menu: a seeded city that has roads, and a new name
MenuNames == {"Kigali", "Gisenyi"}

\* the budgets typed at the menu (getValidDoubleInput asks again on a negative number)
MenuBudgets == 0 .. MaxBudget

\* the indices searchCityByIndex is called with: below, inside and above 1..count
SearchInputs == -1 .. 9

\* placeholder of an argument the called method does not have
NoName == ""

----------------------------------------------------------------------------
(* Messages printed by the methods (the variable parts left out) *)

MsgCityExists    == "City already exists."
MsgCityAdded     == "City added with index"
MsgSameCity      == "Cannot add a road between the same city."
MsgCitiesMissing == "One or both cities not found."
MsgRoadExists    == "A road already exists between"
MsgRoadAdded     == "Road added between"
MsgNegative      == "Budget cannot be negative."
MsgNoRoad        == "No road exists between"
MsgBudgetAdded   == "Budget added for road between"
MsgSameName      == "New name is the same as the old name."
MsgCityNotFound  == "City not found."
MsgCityRenamed   == "City renamed"
MsgFound         == "City found"
MsgIndexNotFound == "City with index not found."
MsgNotPositive   == "Number of cities must be positive."
MsgNoCities      == "No cities exist yet. Add cities first."
MsgNone          == ""

----------------------------------------------------------------------------
(* Vectors and matrices *)

\* std::vector::resize(n, fill): keeps the first n elements, appends copies of fill
resize(v, n, fill) == [k \in 1 .. n |-> IF k <= Len(v) THEN v[k] ELSE fill]

\* vector<T>(n, 0)
zeros(n) == [k \in 1 .. n |-> 0]

\* m[i][j] with the source's 0-based positions
At(m, i, j) == m[i + 1][j + 1]

\* m[i][j] = v
Put(m, i, j, v) == [m EXCEPT ![i + 1][j + 1] = v]

\* the object's three containers as one value
Graph(cs, rm, bm) == [cities |-> cs, roadMatrix |-> rm, budgetMatrix |-> bm]

\* what a method call yields: the graph after it, the returned bool, the printed message
Outcome(g, r, m) == [g |-> g, ret |-> r, out |-> m]

RECURSIVE findFrom(_, _, _)
findFrom(cs, name, k) ==
    IF k > Len(cs) THEN -1
    ELSE IF cs[k].name = name THEN cs[k].index
    ELSE findFrom(cs, name, k + 1)

\* linear scan: the index of the first city called name, -1 if there is none
findCityIndex(cs, name) == findFrom(cs, name, 1)

initializeMatrices(g) ==
    LET size == Len(g.cities) IN
    Graph(g.cities,
          resize(g.roadMatrix, size, zeros(size)),
          resize(g.budgetMatrix, size, zeros(size)))

\* resizeMatrices that adds the new row but does not widen the existing rows
resizeMatricesNewRowOnly(g) ==
    LET newSize == Len(g.cities)
    IN  Graph(g.cities,
              resize(g.roadMatrix, newSize, zeros(newSize)),
              resize(g.budgetMatrix, newSize, zeros(newSize)))

\* resizeMatrices building both matrices anew, all entries 0
resizeMatricesClears(g) ==
    LET newSize == Len(g.cities)
    IN  Graph(g.cities,
              resize(<<>>, newSize, zeros(newSize)),
              resize(<<>>, newSize, zeros(newSize)))

resizeMatrices(g) ==
    LET newSize == Len(g.cities)
        rowsR == [k \in 1 .. Len(g.roadMatrix) |-> resize(g.roadMatrix[k], newSize, 0)]
        rowsB == [k \in 1 .. Len(g.budgetMatrix) |-> resize(g.budgetMatrix[k], newSize, 0)]
    IN  Graph(g.cities,
              resize(rowsR, newSize, zeros(newSize)),
              resize(rowsB, newSize, zeros(newSize)))

----------------------------------------------------------------------------
(* The methods *)

\* addCity numbering the new city by the size of the list before the push
addCityIndexFromSize(g, name) ==
    IF findCityIndex(g.cities, name) # -1
    THEN Outcome(g, FALSE, MsgCityExists)
    ELSE LET newIndex == IF g.cities = <<>> THEN 1 ELSE Len(g.cities)
             pushed == Graph(Append(g.cities, [index |-> newIndex, name |-> name]),
                             g.roadMatrix, g.budgetMatrix)
         IN  Outcome(IF g.roadMatrix # <<>> THEN resizeMatrices(pushed)
                                            ELSE initializeMatrices(pushed),
                     TRUE, MsgCityAdded)

\* addCity taking the last index as the new one (the + 1 forgotten)
addCityIndexFromBack(g, name) ==
    IF findCityIndex(g.cities, name) # -1
    THEN Outcome(g, FALSE, MsgCityExists)
    ELSE LET newIndex == IF g.cities = <<>> THEN 1
                         ELSE g.cities[Len(g.cities)].index
             pushed == Graph(Append(g.cities, [index |-> newIndex, name |-> name]),
                             g.roadMatrix, g.budgetMatrix)
         IN  Outcome(IF g.roadMatrix # <<>> THEN resizeMatrices(pushed)
                                            ELSE initializeMatrices(pushed),
                     TRUE, MsgCityAdded)

addCity(g, name) ==
    IF findCityIndex(g.cities, name) # -1
    THEN Outcome(g, FALSE, MsgCityExists)
    ELSE LET newIndex == IF g.cities = <<>> THEN 1
                         ELSE g.cities[Len(g.cities)].index + 1
             pushed == Graph(Append(g.cities, [index |-> newIndex, name |-> name]),
                             g.roadMatrix, g.budgetMatrix)
         IN  Outcome(IF g.roadMatrix # <<>> THEN resizeMatrices(pushed)
                                            ELSE initializeMatrices(pushed),
                     TRUE, MsgCityAdded)

\* addRoad marking one direction only (the mirrored assignment forgotten)
addRoadOneWay(g, c1, c2) ==
    IF c1 = c2 THEN Outcome(g, FALSE, MsgSameCity)
    ELSE LET idx1 == findCityIndex(g.cities, c1)
             idx2 == findCityIndex(g.cities, c2)
         IN  IF idx1 = -1 \/ idx2 = -1 THEN Outcome(g, FALSE, MsgCitiesMissing)
             ELSE LET i == idx1 - 1
                      j == idx2 - 1
                  IN  IF At(g.roadMatrix, i, j) = 1
                      THEN Outcome(g, FALSE, MsgRoadExists)
                      ELSE Outcome(Graph(g.cities,
                                         Put(g.roadMatrix, i, j, 1),
                                         g.budgetMatrix),
                                   TRUE, MsgRoadAdded)

\* addRoad without the same-city check
addRoadNoSelfCheck(g, c1, c2) ==
    LET idx1 == findCityIndex(g.cities, c1)
        idx2 == findCityIndex(g.cities, c2)
    IN  IF idx1 = -1 \/ idx2 = -1 THEN Outcome(g, FALSE, MsgCitiesMissing)
        ELSE LET i == idx1 - 1
                 j == idx2 - 1
             IN  IF At(g.roadMatrix, i, j) = 1
                 THEN Outcome(g, FALSE, MsgRoadExists)
                 ELSE Outcome(Graph(g.cities,
                                    Put(Put(g.roadMatrix, i, j, 1), j, i, 1),
                                    g.budgetMatrix),
                              TRUE, MsgRoadAdded)

addRoad(g, c1, c2) ==
    IF c1 = c2 THEN Outcome(g, FALSE, MsgSameCity)
    ELSE LET idx1 == findCityIndex(g.cities, c1)
             idx2 == findCityIndex(g.cities, c2)
         IN  IF idx1 = -1 \/ idx2 = -1 THEN Outcome(g, FALSE, MsgCitiesMissing)
             ELSE LET i == idx1 - 1
                      j == idx2 - 1
                  IN  IF At(g.roadMatrix, i, j) = 1
                      THEN Outcome(g, FALSE, MsgRoadExists)
                      ELSE Outcome(Graph(g.cities,
                                         Put(Put(g.roadMatrix, i, j, 1), j, i, 1),
                                         g.budgetMatrix),
                                   TRUE, MsgRoadAdded)

\* addBudget adding the amount to the stored budget instead of replacing it
addBudgetAccumulates(g, c1, c2, b) ==
    IF b < 0 THEN Outcome(g, FALSE, MsgNegative)
    ELSE LET idx1 == findCityIndex(g.cities, c1)
             idx2 == findCityIndex(g.cities, c2)
         IN  IF idx1 = -1 \/ idx2 = -1 THEN Outcome(g, FALSE, MsgCitiesMissing)
             ELSE LET i == idx1 - 1
                      j == idx2 - 1
                      sum == At(g.budgetMatrix, i, j) + b
                  IN  IF At(g.roadMatrix, i, j) = 0
                      THEN Outcome(g, FALSE, MsgNoRoad)
                      ELSE Outcome(Graph(g.cities,
                                         g.roadMatrix,
                                         Put(Put(g.budgetMatrix, i, j, sum), j, i, sum)),
                                   TRUE, MsgBudgetAdded)

\* addBudget writing one direction only (the mirrored assignment forgotten)
addBudgetOneWay(g, c1, c2, b) ==
    IF b < 0 THEN Outcome(g, FALSE, MsgNegative)
    ELSE LET idx1 == findCityIndex(g.cities, c1)
             idx2 == findCityIndex(g.cities, c2)
         IN  IF idx1 = -1 \/ idx2 = -1 THEN Outcome(g, FALSE, MsgCitiesMissing)
             ELSE LET i == idx1 - 1
                      j == idx2 - 1
                  IN  IF At(g.roadMatrix, i, j) = 0
                      THEN Outcome(g, FALSE, MsgNoRoad)
                      ELSE Outcome(Graph(g.cities,
                                         g.roadMatrix,
                                         Put(g.budgetMatrix, i, j, b)),
                                   TRUE, MsgBudgetAdded)

\* addBudget without the road-exists check
addBudgetNoRoadCheck(g, c1, c2, b) ==
    IF b < 0 THEN Outcome(g, FALSE, MsgNegative)
    ELSE LET idx1 == findCityIndex(g.cities, c1)
             idx2 == findCityIndex(g.cities, c2)
         IN  IF idx1 = -1 \/ idx2 = -1 THEN Outcome(g, FALSE, MsgCitiesMissing)
             ELSE LET i == idx1 - 1
                      j == idx2 - 1
                  IN  Outcome(Graph(g.cities,
                                    g.roadMatrix,
                                    Put(Put(g.budgetMatrix, i, j, b), j, i, b)),
                              TRUE, MsgBudgetAdded)

\* addBudget looking the cities up before it tests the sign of the budget
addBudgetLookupFirst(g, c1, c2, b) ==
    LET idx1 == findCityIndex(g.cities, c1)
        idx2 == findCityIndex(g.cities, c2)
    IN  IF idx1 = -1 \/ idx2 = -1 THEN Outcome(g, FALSE, MsgCitiesMissing)
        ELSE IF b < 0 THEN Outcome(g, FALSE, MsgNegative)
        ELSE LET i == idx1 - 1
                 j == idx2 - 1
             IN  IF At(g.roadMatrix, i, j) = 0
                 THEN Outcome(g, FALSE, MsgNoRoad)
                 ELSE Outcome(Graph(g.cities,
                                    g.roadMatrix,
                                    Put(Put(g.budgetMatrix, i, j, b), j, i, b)),
                              TRUE, MsgBudgetAdded)

addBudget(g, c1, c2, b) ==
    IF b < 0 THEN Outcome(g, FALSE, MsgNegative)
    ELSE LET idx1 == findCityIndex(g.cities, c1)
             idx2 == findCityIndex(g.cities, c2)
         IN  IF idx1 = -1 \/ idx2 = -1 THEN Outcome(g, FALSE, MsgCitiesMissing)
             ELSE LET i == idx1 - 1
                      j == idx2 - 1
                  IN  IF At(g.roadMatrix, i, j) = 0
                      THEN Outcome(g, FALSE, MsgNoRoad)
                      ELSE Outcome(Graph(g.cities,
                                         g.roadMatrix,
                                         Put(Put(g.budgetMatrix, i, j, b), j, i, b)),
                                   TRUE, MsgBudgetAdded)

RECURSIVE renameFrom(_, _, _, _)
\* the loop of editCity: renames the first city called oldName; <<>> stands for
\* the loop ending without a match (the trailing return false)
renameFrom(cs, oldName, newName, k) ==
    IF k > Len(cs) THEN <<>>
    ELSE IF cs[k].name = oldName THEN [cs EXCEPT ![k].name = newName]
    ELSE renameFrom(cs, oldName, newName, k + 1)

\* editCity looking oldName up before it compares the two names
editCityNotFoundFirst(g, oldName, newName) ==
    IF findCityIndex(g.cities, oldName) = -1 THEN Outcome(g, FALSE, MsgCityNotFound)
    ELSE IF oldName = newName THEN Outcome(g, FALSE, MsgSameName)
    ELSE IF findCityIndex(g.cities, newName) # -1 THEN Outcome(g, FALSE, MsgCityExists)
    ELSE Outcome(Graph(renameFrom(g.cities, oldName, newName, 1),
                       g.roadMatrix, g.budgetMatrix),
                 TRUE, MsgCityRenamed)

\* editCity whose loop renames a copy of the city (for (auto city : cities))
editCityRenamesCopy(g, oldName, newName) ==
    IF oldName = newName THEN Outcome(g, FALSE, MsgSameName)
    ELSE IF findCityIndex(g.cities, oldName) = -1 THEN Outcome(g, FALSE, MsgCityNotFound)
    ELSE IF findCityIndex(g.cities, newName) # -1 THEN Outcome(g, FALSE, MsgCityExists)
    ELSE Outcome(g, TRUE, MsgCityRenamed)

\* editCity renaming before it looks for newName: it reports the failure after the change
editCityRenamesFirst(g, oldName, newName) ==
    IF oldName = newName THEN Outcome(g, FALSE, MsgSameName)
    ELSE IF findCityIndex(g.cities, oldName) = -1 THEN Outcome(g, FALSE, MsgCityNotFound)
    ELSE LET renamed == Graph(renameFrom(g.cities, oldName, newName, 1),
                              g.roadMatrix, g.budgetMatrix)
         IN  IF findCityIndex(g.cities, newName) # -1
             THEN Outcome(renamed, FALSE, MsgCityExists)
             ELSE Outcome(renamed, TRUE, MsgCityRenamed)

\* editCity without the check that newName is free
editCityNoDupCheck(g, oldName, newName) ==
    IF oldName = newName THEN Outcome(g, FALSE, MsgSameName)
    ELSE IF findCityIndex(g.cities, oldName) = -1 THEN Outcome(g, FALSE, MsgCityNotFound)
    ELSE Outcome(Graph(renameFrom(g.cities, oldName, newName, 1),
                       g.roadMatrix, g.budgetMatrix),
                 TRUE, MsgCityRenamed)

\* editCity erasing the city and pushing it back under its new name and old index
editCityMovesToBack(g, oldName, newName) ==
    IF oldName = newName THEN Outcome(g, FALSE, MsgSameName)
    ELSE IF findCityIndex(g.cities, oldName) = -1 THEN Outcome(g, FALSE, MsgCityNotFound)
    ELSE IF findCityIndex(g.cities, newName) # -1 THEN Outcome(g, FALSE, MsgCityExists)
    ELSE LET cs == g.cities
             k == CHOOSE m \in DOMAIN cs : cs[m].name = oldName
             moved == [m \in 1 .. Len(cs) |->
                          IF m < k THEN cs[m]
                          ELSE IF m < Len(cs) THEN cs[m + 1]
                          ELSE [index |-> cs[k].index, name |-> newName]]
         IN  Outcome(Graph(moved, g.roadMatrix, g.budgetMatrix), TRUE, MsgCityRenamed)

editCity(g, oldName, newName) ==
    IF oldName = newName THEN Outcome(g, FALSE, MsgSameName)
    ELSE IF findCityIndex(g.cities, oldName) = -1 THEN Outcome(g, FALSE, MsgCityNotFound)
    ELSE IF findCityIndex(g.cities, newName) # -1 THEN Outcome(g, FALSE, MsgCityExists)
    ELSE LET renamed == renameFrom(g.cities, oldName, newName, 1)
         IN  IF renamed = <<>> THEN Outcome(g, FALSE, MsgNone)
             ELSE Outcome(Graph(renamed, g.roadMatrix, g.budgetMatrix), TRUE, MsgCityRenamed)

RECURSIVE searchFrom(_, _, _)
searchFrom(cs, i, k) ==
    IF k > Len(cs) THEN <<>>
    ELSE IF cs[k].index = i THEN <<cs[k]>>
    ELSE searchFrom(cs, i, k + 1)

\* searchCityByIndex taking the index for a position in the vector, counted from 0
searchCityByPosition(cs, i) ==
    IF 0 <= i /\ i < Len(cs) THEN <<cs[i + 1]>> ELSE <<>>

\* the city searchCityByIndex prints, <<>> when it prints not found
searchCityByIndex(cs, i) == searchFrom(cs, i, 1)

----------------------------------------------------------------------------
(* The snapshot files.  A file is its header line and its rows; a row is the
   text of its columns (the padding of setw left out).  The budget column is
   kept as the stored number. *)

\* a file nothing was written to
NoFile == [header |-> <<>>, rows |-> <<>>]

cityTable(cs) ==
    [header |-> <<"Index", "City_Name">>,
     rows |-> [k \in 1 .. Len(cs) |->
                  [index |-> ToString(cs[k].index), name |-> cs[k].name]]]

RECURSIVE roadRows(_, _, _, _)
\* the two loops of saveToFiles from position (i, j) on; counter numbers the next row
roadRows(g, i, j, counter) ==
    IF i >= Len(g.roadMatrix) THEN <<>>
    ELSE IF j >= Len(g.roadMatrix[i + 1]) THEN roadRows(g, i + 1, i + 2, counter)
    ELSE IF At(g.roadMatrix, i, j) = 1
         THEN <<[nbr |-> ToString(counter) \o ".",
                 road |-> g.cities[i + 1].name \o "-" \o g.cities[j + 1].name,
                 budget |-> At(g.budgetMatrix, i, j)]>>
              \o roadRows(g, i, j + 1, counter + 1)
         ELSE roadRows(g, i, j + 1, counter)

\* the road table numbering its rows from 0
roadTableFromZero(g) ==
    [header |-> <<"Nbr", "Road", "Budget">>, rows |-> roadRows(g, 0, 1, 0)]

roadTable(g) ==
    [header |-> <<"Nbr", "Road", "Budget">>, rows |-> roadRows(g, 0, 1, 1)]

\* the two files as one value
Files(cf, rf) == [cityFile |-> cf, roadFile |-> rf]

\* saveToFiles; cityOpens and roadOpens tell whether the ofstream of each file opens
saveToFiles(g, files, cityOpens, roadOpens) ==
    IF ~cityOpens THEN files
    ELSE IF ~roadOpens THEN Files(cityTable(g.cities), files.roadFile)
    ELSE Files(cityTable(g.cities), roadTable(g))

----------------------------------------------------------------------------
(* Seed data of loadInitialData *)

\* the seed cities in alphabetical order
initialCitiesSorted == <<"Huye", "Kigali", "Muhanga", "Musanze", "Nyagatare", "Rubavu", "Rusizi">>

initialCities == <<"Kigali", "Huye", "Muhanga", "Musanze", "Nyagatare", "Rubavu", "Rusizi">>

initialRoads == <<
    <<"Kigali", "Muhanga", 2860>>,
    <<"Kigali", "Musanze", 2860>>,
    <<"Kigali", "Nyagatare", 7084>>,
    <<"Muhanga", "Huye", 5670>>,
    <<"Musanze", "Rubavu", 3370>>,
    <<"Huye", "Rusizi", 8096>>,
    <<"Muhanga", "Rusizi", 11750>>,
    <<"Musanze", "Nyagatare", 9614>>,
    <<"Muhanga", "Musanze", 6630>> >>

\* the calls loadInitialData makes, in order: 7 addCity, then addRoad and addBudget per road
SeedCalls == Len(initialCities) + 2 * Len(initialRoads)

----------------------------------------------------------------------------
(* The state machine *)

G == Graph(cities, roadMatrix, budgetMatrix)

\* the object takes the outcome of a call; the call is recorded
Apply(o, method, a1, a2, b) ==
    /\ cities' = o.g.cities
    /\ roadMatrix' = o.g.roadMatrix
    /\ budgetMatrix' = o.g.budgetMatrix
    /\ ret' = o.ret
    /\ out' = o.out
    /\ op' = method
    /\ city1' = a1
    /\ city2' = a2
    /\ budget' = b
    /\ idx' = 0
    /\ found' = <<>>

Constructed ==
    /\ cities = <<>>
    /\ roadMatrix = <<>>
    /\ budgetMatrix = <<>>
    /\ pc = "new"
    /\ seedStep = 0
    /\ op = "none"
    /\ city1 = NoName
    /\ city2 = NoName
    /\ budget = 0
    /\ idx = 0
    /\ ret = FALSE
    /\ out = MsgNone
    /\ found = <<>>
    /\ cityFile = NoFile
    /\ roadFile = NoFile
    /\ numCities = 0
    /\ addedCount = 0

\* the object after its constructor, in a directory where the files can be opened
Init == Constructed /\ failuresLeft = 0

\* saveToFiles runs on graph g; an open may fail while failures are left
Save(g) ==
    \E cityOpens, roadOpens \in BOOLEAN :
        /\ (cityOpens /\ roadOpens) \/ (failuresLeft > 0 /\ (cityOpens \/ roadOpens))
        /\ LET f == saveToFiles(g, Files(cityFile, roadFile), cityOpens, roadOpens)
           IN  /\ cityFile' = f.cityFile
               /\ roadFile' = f.roadFile
        /\ failuresLeft' = IF cityOpens /\ roadOpens THEN failuresLeft ELSE failuresLeft - 1

NoSave == UNCHANGED <<cityFile, roadFile, failuresLeft>>

\* one call of loadInitialData: its three loops, then saveToFiles
LoadInitialData ==
    /\ pc \in {"new", "seeding"}
    /\ seedStep <= SeedCalls
    /\ seedStep' = seedStep + 1
    /\ pc' = IF seedStep = SeedCalls THEN "ready" ELSE "seeding"
    /\ UNCHANGED <<numCities, addedCount>>
    /\ IF seedStep < Len(initialCities)
       THEN LET name == initialCities[seedStep + 1]
            IN  Apply(addCity(G, name), "addCity", name, NoName, 0) /\ NoSave
       ELSE IF seedStep < SeedCalls
       THEN LET k == seedStep - Len(initialCities)
                road == initialRoads[(k \div 2) + 1]
            IN  IF k % 2 = 0
                THEN Apply(addRoad(G, road[1], road[2]), "addRoad", road[1], road[2], 0)
                     /\ NoSave
                ELSE Apply(addBudget(G, road[1], road[2], road[3]),
                           "addBudget", road[1], road[2], road[3])
                     /\ NoSave
       ELSE Apply(Outcome(G, FALSE, MsgNone), "saveToFiles", NoName, NoName, 0) /\ Save(G)

Called ==
    /\ pc # "seeding"
    /\ pc' = "ready"
    /\ UNCHANGED <<seedStep, numCities, addedCount>>
    /\ NoSave

AddCity(name) ==
    /\ Called
    /\ Apply(addCity(G, name), "addCity", name, NoName, 0)

AddRoad(c1, c2) ==
    /\ Called
    /\ Apply(addRoad(G, c1, c2), "addRoad", c1, c2, 0)

AddBudget(c1, c2, b) ==
    /\ Called
    /\ Apply(addBudget(G, c1, c2, b), "addBudget", c1, c2, b)

EditCity(oldName, newName) ==
    /\ Called
    /\ Apply(editCity(G, oldName, newName), "editCity", oldName, newName, 0)

SearchCityByIndex(i) ==
    /\ Called
    /\ LET hit == searchCityByIndex(cities, i)
       IN  /\ found' = hit
           /\ out' = IF hit = <<>> THEN MsgIndexNotFound ELSE MsgFound
    /\ op' = "searchCityByIndex"
    /\ idx' = i
    /\ city1' = NoName
    /\ city2' = NoName
    /\ budget' = 0
    /\ ret' = FALSE
    /\ UNCHANGED <<cities, roadMatrix, budgetMatrix>>

DoAddCity == \E name \in InputNames : AddCity(name)
DoAddRoad == \E c1, c2 \in InputNames : AddRoad(c1, c2)
DoAddBudget == \E c1, c2 \in InputNames, b \in Budgets : AddBudget(c1, c2, b)
DoEditCity == \E oldName, newName \in InputNames : EditCity(oldName, newName)
DoSearch == \E i \in SearchInputs : SearchCityByIndex(i)

Next ==
    \/ LoadInitialData
    \/ DoAddCity
    \/ DoAddRoad
    \/ DoAddBudget
    \/ DoEditCity
    \/ DoSearch

Spec == Init /\ [][Next]_vars

----------------------------------------------------------------------------
(* The program: main seeds the graph, then runs one menu command after the other *)

\* the program in a directory where opening a file may fail
MainInit == Constructed /\ failuresLeft = MaxOpenFailures

\* main is about to read the next menu choice, and will be again after the command
AtMenu ==
    /\ pc = "ready"
    /\ pc' = "ready"
    /\ UNCHANGED seedStep

\* a command that calls no method of the object
NoCall(method, message) ==
    /\ Apply(Outcome(G, FALSE, message), method, NoName, NoName, 0)
    /\ NoSave

\* a command that calls one method and saves when the method returned true
SaveIf(o) == IF o.ret THEN Save(o.g) ELSE NoSave

RECURSIVE addCities(_, _, _)
\* the loop of case 1 from the k-th name on; acc is the outcome of the last
\* addCity and the count of accepted names so far
addCities(acc, names, k) ==
    IF k > Len(names) THEN acc
    ELSE LET o == addCity(acc.o.g, names[k])
         IN  addCities([o |-> o,
                        addedCount |-> acc.addedCount + (IF o.ret THEN 1 ELSE 0)],
                       names, k + 1)

\* case 1 saving only when every name was accepted
MenuAddCitiesSaveIfAll(names) ==
    /\ AtMenu
    /\ numCities' = Len(names)
    /\ IF names = <<>>
       THEN NoCall("none", MsgNotPositive) /\ addedCount' = 0
       ELSE LET r == addCities([o |-> Outcome(G, FALSE, MsgNone), addedCount |-> 0],
                               names, 1)
            IN  /\ Apply(r.o, "addCity", names[Len(names)], NoName, 0)
                /\ addedCount' = r.addedCount
                /\ IF r.addedCount = Len(names) THEN Save(r.o.g) ELSE NoSave

\* case 1; names are the names typed, <<>> standing for a number of cities <= 0
MenuAddCities(names) ==
    /\ AtMenu
    /\ numCities' = Len(names)
    /\ IF names = <<>>
       THEN NoCall("none", MsgNotPositive) /\ addedCount' = 0
       ELSE LET r == addCities([o |-> Outcome(G, FALSE, MsgNone), addedCount |-> 0],
                               names, 1)
            IN  /\ Apply(r.o, "addCity", names[Len(names)], NoName, 0)
                /\ addedCount' = r.addedCount
                /\ IF r.addedCount > 0 THEN Save(r.o.g) ELSE NoSave

\* case 2
MenuAddRoad(c1, c2) ==
    /\ AtMenu
    /\ numCities' = 0
    /\ addedCount' = 0
    /\ IF cities = <<>> THEN NoCall("none", MsgNoCities)
       ELSE LET o == addRoad(G, c1, c2)
            IN  Apply(o, "addRoad", c1, c2, 0) /\ SaveIf(o)

\* case 3
MenuAddBudget(c1, c2, b) ==
    /\ AtMenu
    /\ numCities' = 0
    /\ addedCount' = 0
    /\ IF cities = <<>> THEN NoCall("none", MsgNoCities)
       ELSE LET o == addBudget(G, c1, c2, b)
            IN  Apply(o, "addBudget", c1, c2, b) /\ SaveIf(o)

\* case 4
MenuEditCity(oldName, newName) ==
    /\ AtMenu
    /\ numCities' = 0
    /\ addedCount' = 0
    /\ IF cities = <<>> THEN NoCall("none", MsgNoCities)
       ELSE LET o == editCity(G, oldName, newName)
            IN  Apply(o, "editCity", oldName, newName, 0) /\ SaveIf(o)

\* cases 5 to 8 and an invalid choice: nothing is changed and nothing is saved
MenuShow ==
    /\ AtMenu
    /\ numCities' = 0
    /\ addedCount' = 0
    /\ NoCall("none", MsgNone)

\* case 9
MenuExit ==
    /\ pc = "ready"
    /\ pc' = "exited"
    /\ UNCHANGED <<seedStep, numCities, addedCount>>
    /\ NoCall("none", MsgNone)

NameLists == UNION {[1 .. n -> MenuNames] : n \in 0 .. MaxAddCount}

DoMenuAddCities == \E names \in NameLists : MenuAddCities(names)
DoMenuAddRoad == \E c1, c2 \in MenuNames : MenuAddRoad(c1, c2)
DoMenuAddBudget == \E c1, c2 \in MenuNames, b \in MenuBudgets : MenuAddBudget(c1, c2, b)
DoMenuEditCity == \E oldName, newName \in MenuNames : MenuEditCity(oldName, newName)

MainNext ==
    \/ LoadInitialData
    \/ DoMenuAddCities
    \/ DoMenuAddRoad
    \/ DoMenuAddBudget
    \/ DoMenuEditCity
    \/ MenuShow
    \/ MenuExit

MainSpec == MainInit /\ [][MainNext]_vars

----------------------------------------------------------------------------
(* Vocabulary of the properties *)

\* the methods that can change the graph
Mutators == {"addCity", "addRoad", "addBudget", "editCity"}

\* a city called n is in the list
Registered(n) == \E k \in DOMAIN cities : cities[k].name = n

\* the largest index in a non-empty city list
MaxIndex(cs) == CHOOSE m \in {cs[k].index : k \in DOMAIN cs} :
                    \A k \in DOMAIN cs : cs[k].index <= m

\* some pair of cities has a road with a budget that is not 0
SomeBudget == \E i \in DOMAIN budgetMatrix : \E j \in DOMAIN budgetMatrix[i] :
                  budgetMatrix[i][j] # 0

\* m[i][j] = m[j][i] wherever m[i][j] exists
SymmetricMatrix(m) ==
    \A i \in DOMAIN m : \A j \in DOMAIN m[i] :
        /\ j \in DOMAIN m
        /\ i \in DOMAIN m[j]
        /\ m[i][j] = m[j][i]

----------------------------------------------------------------------------
(* C1 - C10 *)

\* C1: after every operation roadMatrix[i][j] = roadMatrix[j][i] and
\* budgetMatrix[i][j] = budgetMatrix[j][i] for all positions i, j.
C1_Symmetry == SymmetricMatrix(roadMatrix) /\ SymmetricMatrix(budgetMatrix)

\* a budget was set on a road of the seeded graph grown by one city
C1_Witness ==
    /\ op = "addBudget"
    /\ ret = TRUE
    /\ budget > 0
    /\ Len(cities) > Len(initialCities)

\* C2: after every operation, budgetMatrix[i][j] # 0 only if roadMatrix[i][j] = 1.
C2_BudgetImpliesRoad ==
    \A i \in DOMAIN budgetMatrix : \A j \in DOMAIN budgetMatrix[i] :
        budgetMatrix[i][j] # 0 =>
            /\ i \in DOMAIN roadMatrix
            /\ j \in DOMAIN roadMatrix[i]
            /\ roadMatrix[i][j] = 1

\* addBudget was refused for want of a road while another road carries a budget
C2_Witness ==
    /\ op = "addBudget"
    /\ out = MsgNoRoad
    /\ SomeBudget

\* C3: whenever addCity, editCity, addRoad or addBudget returns false, the city
\* list and both matrices are what they were before the call.
C3_FailureChangesNothing ==
    [][(op' \in Mutators /\ ret' = FALSE)
          => UNCHANGED <<cities, roadMatrix, budgetMatrix>>]_vars

\* a rename onto the name of another city was refused in a graph with budgets
C3_Witness ==
    /\ op = "editCity"
    /\ ret = FALSE
    /\ out = MsgCityExists
    /\ SomeBudget

\* C4: after every operation no two cities have the same name and no two have
\* the same index.
C4_NameUniqueness ==
    \A p, q \in DOMAIN cities :
        p # q => cities[p].name # cities[q].name /\ cities[p].index # cities[q].index

\* a city was renamed while at least one other city exists, and the freed name
\* was not yet taken again
C4_Witness ==
    /\ op = "editCity"
    /\ ret = TRUE
    /\ Len(cities) >= 2
    /\ ~Registered(city1)

\* C5: addCity(name) with a name not yet registered succeeds, makes the count one
\* larger and gives the new city the largest existing index + 1 (1 in an empty
\* registry); with a registered name it fails with the already-exists message and
\* leaves the count unchanged.
C5_AddCity ==
    [][op' = "addCity" =>
          IF ~Registered(city1')
          THEN /\ ret' = TRUE
               /\ Len(cities') = Len(cities) + 1
               /\ cities'[Len(cities')].name = city1'
               /\ cities'[Len(cities')].index =
                      (IF cities = <<>> THEN 1 ELSE MaxIndex(cities) + 1)
          ELSE /\ ret' = FALSE
               /\ out' = MsgCityExists
               /\ Len(cities') = Len(cities)]_vars

\* an operator call added a second or later city
C5_Witness ==
    /\ op = "addCity"
    /\ ret = TRUE
    /\ pc = "ready"
    /\ Len(cities) >= 2
    /\ cities[Len(cities)].name = city1

\* both matrices are square with as many rows and columns as there are cities
Square ==
    /\ Len(roadMatrix) = Len(cities)
    /\ Len(budgetMatrix) = Len(cities)
    /\ \A k \in DOMAIN roadMatrix : Len(roadMatrix[k]) = Len(cities)
    /\ \A k \in DOMAIN budgetMatrix : Len(budgetMatrix[k]) = Len(cities)

\* every name a call or the seed data can mention
AllNames == InputNames \cup {initialCities[k] : k \in DOMAIN initialCities}

\* C6: after every operation both matrices are square of dimension count; a
\* successful addCity grows both by one row and one column, keeps every stored
\* entry at its position and fills the new row and column with 0.
C6_Lockstep ==
    [][/\ Square
       /\ Square'
       /\ (op' = "addCity" /\ ret' = TRUE) =>
             LET n == Len(cities) IN
             /\ Len(cities') = n + 1
             /\ Len(roadMatrix') = n + 1
             /\ Len(budgetMatrix') = n + 1
             /\ \A i, j \in 1 .. n + 1 :
                    IF i <= n /\ j <= n
                    THEN /\ roadMatrix'[i][j] = roadMatrix[i][j]
                         /\ budgetMatrix'[i][j] = budgetMatrix[i][j]
                    ELSE /\ roadMatrix'[i][j] = 0
                         /\ budgetMatrix'[i][j] = 0]_vars

\* a city was added to a graph of at least two cities that has a budgeted road
C6_Witness ==
    /\ op = "addCity"
    /\ ret = TRUE
    /\ Len(cities) >= 3
    /\ SomeBudget

\* C7: after every operation the city at list position k (0-based) has index
\* k + 1, and no operation changes the index of a city already in the list.
C7_StableIndex ==
    [][/\ \A k \in DOMAIN cities' : cities'[k].index = k
       /\ \A k \in DOMAIN cities :
              /\ k \in DOMAIN cities'
              /\ cities'[k].index = cities[k].index
              /\ op' # "editCity" => cities'[k].name = cities[k].name]_vars

\* the first seeded city was renamed and its old name given to a new, eighth city
C7_Witness ==
    /\ Len(cities) = Len(initialCities) + 1
    /\ cities[1].name # initialCities[1]
    /\ cities[Len(cities)].name = initialCities[1]

\* C8: after every operation the diagonal of both matrices is 0; addRoad(x, x)
\* fails with the same-city message and changes neither matrix; two different
\* registered names never resolve to the same matrix position (name resolution
\* depends on the city list only, so it is looked at whenever the list changes).
C8_NoSelfRoads ==
    [][/\ \A k \in DOMAIN roadMatrix' : roadMatrix'[k][k] = 0
       /\ \A k \in DOMAIN budgetMatrix' : budgetMatrix'[k][k] = 0
       /\ (op' = "addRoad" /\ city1' = city2') =>
              /\ ret' = FALSE
              /\ out' = MsgSameCity
              /\ UNCHANGED <<roadMatrix, budgetMatrix>>
       /\ cities' # cities =>
              \A n1, n2 \in AllNames :
                  (n1 # n2 /\ findCityIndex(cities', n1) # -1
                           /\ findCityIndex(cities', n2) # -1)
                      => findCityIndex(cities', n1) # findCityIndex(cities', n2)]_vars

\* addRoad was called with the same registered name twice in a graph that has roads
C8_Witness ==
    /\ op = "addRoad"
    /\ city1 = city2
    /\ Registered(city1)
    /\ \E i \in DOMAIN roadMatrix : \E j \in DOMAIN roadMatrix[i] : roadMatrix[i][j] = 1

\* C9 as stated: rename fails with the not-found message whenever oldName is not
\* registered, with the same-name message when oldName is registered and equals
\* newName, with the already-exists message when oldName is registered, newName
\* differs from it and newName is registered.
C9_KindsAsListed ==
    [][op' = "editCity" =>
          /\ ~Registered(city1') => out' = MsgCityNotFound
          /\ (Registered(city1') /\ city1' = city2') => out' = MsgSameName
          /\ (Registered(city1') /\ city1' # city2' /\ Registered(city2'))
                 => out' = MsgCityExists]_vars

\* C9 amended: rename fails with the same-name message whenever oldName equals
\* newName, registered or not; with the not-found message when the names differ
\* and oldName is not registered; with the already-exists message when oldName is
\* registered, newName differs from it and newName is registered.
C9_KindsInCodeOrder ==
    [][op' = "editCity" =>
          /\ city1' = city2' => (ret' = FALSE /\ out' = MsgSameName)
          /\ (city1' # city2' /\ ~Registered(city1'))
                 => (ret' = FALSE /\ out' = MsgCityNotFound)
          /\ (Registered(city1') /\ city1' # city2' /\ Registered(city2'))
                 => (ret' = FALSE /\ out' = MsgCityExists)]_vars

\* a rename of an unregistered name to itself was answered with the same-name message
C9_Witness ==
    /\ op = "editCity"
    /\ city1 = city2
    /\ ~Registered(city1)
    /\ out = MsgSameName
    /\ cities # <<>>

\* C10: a successful rename changes the name of the one city called oldName and
\* nothing else: that city keeps index and position, the other cities and both
\* matrices are unchanged, and newName resolves to the index oldName had; a
\* rename onto the name of another registered city fails and changes nothing.
C10_RenameFrame ==
    [][op' = "editCity" =>
          /\ ret' = TRUE =>
                 /\ Cardinality({k \in DOMAIN cities : cities[k].name = city1'}) = 1
                 /\ \E k \in DOMAIN cities :
                        /\ cities[k].name = city1'
                        /\ cities' = [cities EXCEPT ![k] =
                                         [index |-> cities[k].index, name |-> city2']]
                        /\ findCityIndex(cities', city2') = cities[k].index
                 /\ findCityIndex(cities', city2') = findCityIndex(cities, city1')
                 /\ UNCHANGED <<roadMatrix, budgetMatrix>>
          /\ (Registered(city1') /\ Registered(city2') /\ city1' # city2') =>
                 /\ ret' = FALSE
                 /\ UNCHANGED <<cities, roadMatrix, budgetMatrix>>]_vars

\* a city with a budgeted road was renamed
C10_Witness ==
    /\ op = "editCity"
    /\ ret = TRUE
    /\ LET i == findCityIndex(cities, city2)
       IN  /\ i # -1
           /\ \E j \in DOMAIN budgetMatrix[i] : budgetMatrix[i][j] # 0

----------------------------------------------------------------------------
(* C11 - C20 *)

\* the graph after the step
GNext == Graph(cities', roadMatrix', budgetMatrix')

\* the list position (1-based, equal to the index) of the city called n before the step
PosOf(n) == CHOOSE k \in DOMAIN cities : cities[k].name = n

\* m2 is m1 with the entries [i][j] and [j][i] set to v and nothing else changed
OnlyPairSet(m1, m2, i, j, v) ==
    /\ DOMAIN m2 = DOMAIN m1
    /\ \A p \in DOMAIN m1 :
           /\ DOMAIN m2[p] = DOMAIN m1[p]
           /\ \A q \in DOMAIN m1[p] :
                  m2[p][q] = IF <<p, q>> \in {<<i, j>>, <<j, i>>} THEN v ELSE m1[p][q]

\* C11: addBudget(c1, c2, amount) with amount >= 0 on two registered cities fails
\* with the no-road message and leaves the graph unchanged when there is no road
\* between them; when there is one it sets B[i][j] = B[j][i] = amount whatever
\* was stored, changes no other entry of either matrix, and the same call made
\* again succeeds and leaves the state as it is.
C11_SetBudget ==
    [][(op' = "addBudget" /\ budget' >= 0 /\ Registered(city1') /\ Registered(city2')) =>
          LET i == PosOf(city1')
              j == PosOf(city2')
          IN  IF roadMatrix[i][j] = 0
              THEN /\ ret' = FALSE
                   /\ out' = MsgNoRoad
                   /\ UNCHANGED <<cities, roadMatrix, budgetMatrix>>
              ELSE /\ ret' = TRUE
                   /\ OnlyPairSet(budgetMatrix, budgetMatrix', i, j, budget')
                   /\ UNCHANGED <<cities, roadMatrix>>
                   /\ addBudget(GNext, city1', city2', budget')
                          = Outcome(GNext, TRUE, MsgBudgetAdded)]_vars

\* a budget of 1 was set in a graph built from nothing in which a road carries the
\* largest budget
C11_Witness ==
    /\ op = "addBudget"
    /\ ret = TRUE
    /\ budget = 1
    /\ Len(cities) < Len(initialCities)
    /\ \E i \in DOMAIN budgetMatrix : \E j \in DOMAIN budgetMatrix[i] :
           budgetMatrix[i][j] = MaxBudget

\* C12: a successful addRoad(a, b) sets A[i][j] = A[j][i] = 1 where there was no
\* road and changes nothing else, the new road's budget being 0; addRoad on two
\* cities that have a road, in either argument order, fails with the
\* road-exists message and changes nothing.
C12_OneRoadPerPair ==
    [][op' = "addRoad" =>
          /\ ret' = TRUE =>
                 LET i == PosOf(city1')
                     j == PosOf(city2')
                 IN  /\ roadMatrix[i][j] = 0
                     /\ roadMatrix[j][i] = 0
                     /\ OnlyPairSet(roadMatrix, roadMatrix', i, j, 1)
                     /\ UNCHANGED <<cities, budgetMatrix>>
                     /\ budgetMatrix'[i][j] = 0
                     /\ addRoad(GNext, city1', city2') = Outcome(GNext, FALSE, MsgRoadExists)
                     /\ addRoad(GNext, city2', city1') = Outcome(GNext, FALSE, MsgRoadExists)
          /\ (Registered(city1') /\ Registered(city2') /\ city1' # city2') =>
                 LET i == PosOf(city1')
                     j == PosOf(city2')
                 IN  (roadMatrix[i][j] = 1 \/ roadMatrix[j][i] = 1) =>
                         /\ ret' = FALSE
                         /\ out' = MsgRoadExists
                         /\ UNCHANGED <<cities, roadMatrix, budgetMatrix>>]_vars

\* addRoad was refused for an existing road when called with the later city first
C12_Witness ==
    /\ op = "addRoad"
    /\ out = MsgRoadExists
    /\ Len(cities) < Len(initialCities)
    /\ LET i == PosOf(city1)
           j == PosOf(city2)
       IN  i > j /\ roadMatrix[j][i] = 1

\* the pairs of positions i < j joined by a road, positions counted from 1
RoadPairs == {p \in (DOMAIN cities) \X (DOMAIN cities) :
                 p[1] < p[2] /\ roadMatrix[p[1]][p[2]] = 1}

\* pair p comes before pair q in row-major order
RowMajorBefore(p, q) == p[1] < q[1] \/ (p[1] = q[1] /\ p[2] < q[2])

\* C13: in every reachable state the road table saveToFiles writes has one row
\* for each pair of positions i < j with a road and no other row, the rows are
\* in row-major order of (i, j), and row r carries the number r, the current
\* names of the two cities joined by "-", and the current budget of the pair.
C13_RoadEnumeration ==
    LET rows == roadTable(G).rows
    IN  /\ Len(rows) = Cardinality(RoadPairs)
        /\ \A p \in RoadPairs :
              LET r == 1 + Cardinality({q \in RoadPairs : RowMajorBefore(q, p)})
              IN  rows[r] = [nbr |-> ToString(r) \o ".",
                             road |-> cities[p[1]].name \o "-" \o cities[p[2]].name,
                             budget |-> budgetMatrix[p[1]][p[2]]]

\* the seeded graph after Kigali was renamed and a road and a budget were added:
\* the first row is a road of the renamed city, the fourth a road seeded with
\* its later city first
C13_Witness ==
    LET rows == roadTable(G).rows
    IN  /\ Len(rows) = Len(initialRoads) + 1
        /\ rows[1] = [nbr |-> "1.", road |-> "Gisenyi-Muhanga", budget |-> 2860]
        /\ rows[4] = [nbr |-> "4.", road |-> "Huye-Muhanga", budget |-> 5670]
        /\ \E r \in DOMAIN rows : rows[r].budget = MaxBudget

\* C14: as long as no open of a snapshot file has failed, whenever main is
\* about to read a menu choice (the first time after seeding included) the
\* two files hold the city table and the road table of the graph in memory.
C14_SnapshotFollowsState ==
    (pc = "ready" /\ failuresLeft = MaxOpenFailures)
        => /\ cityFile = cityTable(cities)
           /\ roadFile = roadTable(G)

\* the menu is reached after an add-cities command that asked for two names
\* and had the second of them refused, every open having succeeded
C14_Witness ==
    /\ pc = "ready"
    /\ failuresLeft = MaxOpenFailures
    /\ numCities = 2
    /\ addedCount = 1
    /\ ret = FALSE
    /\ Len(cityFile.rows) = Len(initialCities) + 1

\* the two files can describe one graph: every row of the road table joins two
\* names of the city table, the earlier city first
OneState(cf, rf) ==
    \A r \in DOMAIN rf.rows :
        \E k, l \in DOMAIN cf.rows :
            /\ k < l
            /\ rf.rows[r].road = cf.rows[k].name \o "-" \o cf.rows[l].name

\* the graphs the command recorded in op', city1', city2' and budget' can leave
AfterCommand ==
    CASE op' = "addRoad" -> {addRoad(G, city1', city2').g}
      [] op' = "addBudget" -> {addBudget(G, city1', city2', budget').g}
      [] op' = "editCity" -> {editCity(G, city1', city2').g}
      [] op' = "addCity" ->
            {addCities([o |-> Outcome(G, FALSE, MsgNone), addedCount |-> 0], names, 1).o.g :
                names \in NameLists \ {<<>>}}
      [] OTHER -> {G}

\* C15: after every return of saveToFiles the city table and the road table
\* on disk describe one and the same state of the graph, whichever open
\* failed, and a step in which an open failed leaves in memory exactly what
\* its command produced.
C15_SnapshotConsistency ==
    [][/\ OneState(cityFile', roadFile')
       /\ failuresLeft' < failuresLeft => GNext \in AfterCommand]_vars

\* C16: every addCity, addRoad and addBudget call of loadInitialData returns
\* true, and when loadInitialData has returned and no command has run yet
\* the list holds Kigali, Huye, Muhanga, Musanze, Nyagatare, Rubavu, Rusizi
\* with the indices 1 to 7 in this order, findByIndex(1) is Kigali, exactly 9
\* pairs of cities have a road, every road of the seed list has the budget
\* listed for it, and Kigali-Muhanga has 28.6 (2860 hundredths).
C16_SeedState ==
    /\ pc = "seeding" => ret = TRUE
    /\ op = "saveToFiles" =>
          /\ cities = << [index |-> 1, name |-> "Kigali"],
                         [index |-> 2, name |-> "Huye"],
                         [index |-> 3, name |-> "Muhanga"],
                         [index |-> 4, name |-> "Musanze"],
                         [index |-> 5, name |-> "Nyagatare"],
                         [index |-> 6, name |-> "Rubavu"],
                         [index |-> 7, name |-> "Rusizi"] >>
          /\ searchCityByIndex(cities, 1) = << [index |-> 1, name |-> "Kigali"] >>
          /\ Cardinality(RoadPairs) = 9
          /\ \A r \in DOMAIN initialRoads :
                LET i == PosOf(initialRoads[r][1])
                    j == PosOf(initialRoads[r][2])
                IN  /\ roadMatrix[i][j] = 1 /\ roadMatrix[j][i] = 1
                    /\ budgetMatrix[i][j] = initialRoads[r][3]
                    /\ budgetMatrix[j][i] = initialRoads[r][3]
          /\ roadMatrix[PosOf("Kigali")][PosOf("Muhanga")] = 1
          /\ budgetMatrix[PosOf("Kigali")][PosOf("Muhanga")] = 2860

\* loadInitialData has made its 25 calls and saved, and nothing else has run
C16_Witness ==
    /\ op = "saveToFiles"
    /\ pc = "ready"
    /\ seedStep = SeedCalls + 1
    /\ Len(roadFile.rows) = 9

\* both names of the call recorded in city1' and city2' were registered before it
BothRegistered == Registered(city1') /\ Registered(city2')

\* C17: addRoad fails exactly when a precondition fails and reports the first
\* one in the order same names (registered or not), a city not found, road
\* exists; addBudget fails exactly when a precondition fails and reports the
\* first one in the order negative budget (whatever the cities and the road),
\* a city not found, no road (also for twice the same registered city).
C17_FailurePrecedence ==
    [][/\ op' = "addRoad" =>
             IF city1' = city2' THEN ret' = FALSE /\ out' = MsgSameCity
             ELSE IF ~BothRegistered THEN ret' = FALSE /\ out' = MsgCitiesMissing
             ELSE IF roadMatrix[PosOf(city1')][PosOf(city2')] = 1
                  THEN ret' = FALSE /\ out' = MsgRoadExists
             ELSE ret' = TRUE
       /\ op' = "addBudget" =>
             IF budget' < 0 THEN ret' = FALSE /\ out' = MsgNegative
             ELSE IF ~BothRegistered THEN ret' = FALSE /\ out' = MsgCitiesMissing
             ELSE IF roadMatrix[PosOf(city1')][PosOf(city2')] = 0
                  THEN ret' = FALSE /\ out' = MsgNoRoad
             ELSE ret' = TRUE]_vars

\* addBudget was called with a negative budget for a city that is not
\* registered, in a graph that has roads, and reported the negative budget
C17_Witness ==
    /\ op = "addBudget"
    /\ budget < 0
    /\ ~Registered(city1)
    /\ Registered(city2)
    /\ out = MsgNegative
    /\ RoadPairs # {}

\* C18: searchCityByIndex finds a city exactly for the indices 1 .. count,
\* prints not found for every other integer and changes nothing; and for
\* every registered name n, searching the index findCityIndex returns for n
\* finds the city called n.  The city list is the only input of both lookups,
\* so the agreement is checked for every list a step produces.
C18_LookupAgreement ==
    [][/\ op' = "searchCityByIndex" =>
             /\ UNCHANGED <<cities, roadMatrix, budgetMatrix>>
             /\ found' # <<>> <=> (1 <= idx' /\ idx' <= Len(cities))
             /\ out' = IF 1 <= idx' /\ idx' <= Len(cities) THEN MsgFound
                       ELSE MsgIndexNotFound
       /\ cities' # cities =>
             /\ \A i \in SearchInputs :
                   searchCityByIndex(cities', i) # <<>> <=> (1 <= i /\ i <= Len(cities'))
             /\ \A n \in AllNames :
                   (\E k \in DOMAIN cities' : cities'[k].name = n) =>
                       LET k == findCityIndex(cities', n)
                       IN  searchCityByIndex(cities', k) = << [index |-> k, name |-> n] >>]_vars

\* Kigali was renamed and added again: the search for index 8 found the new
\* Kigali, the index under which findCityIndex knows the name
C18_Witness ==
    /\ op = "searchCityByIndex"
    /\ idx = Len(initialCities) + 1
    /\ found = << [index |-> idx, name |-> "Kigali"] >>
    /\ findCityIndex(cities, "Kigali") = idx

\* C19: no step makes the city list shorter, every city keeps its index at
\* its position, and an entry 1 of the road matrix is still 1 at the same
\* position after the step, whatever the operation.
C19_NothingRemoved ==
    [][/\ Len(cities') >= Len(cities)
       /\ \A k \in DOMAIN cities : cities'[k].index = cities[k].index
       /\ \A i \in DOMAIN roadMatrix : \A j \in DOMAIN roadMatrix[i] :
             roadMatrix[i][j] = 1 => roadMatrix'[i][j] = 1]_vars

\* a city was added to the seeded graph after Kigali was renamed and the
\* budget of one of the seeded roads was set again
C19_Witness ==
    /\ op = "addCity"
    /\ ret = TRUE
    /\ Len(cities) = Len(initialCities) + 1
    /\ cities[1].name = "Gisenyi"
    /\ Cardinality(RoadPairs) = Len(initialRoads)
    /\ \E p \in RoadPairs : budgetMatrix[p[1]][p[2]] = MaxBudget

\* In the graph a rename of a to b has left: a does not resolve; addRoad of a
\* with each name of xs and addBudget of a with each name of AllNames and each
\* budget of bs, in either order, report that a city was not found and change
\* nothing; addCity(a) returns true and appends a with the index count + 1 and
\* a row and a column of zeros; and the city at the position a had is b with
\* its index, its roads and its budgets, also after that addCity.
RenameFrees(a, b, xs, bs) ==
    LET g == GNext
        n == Len(cities)
        k == PosOf(a)
        o == addCity(g, a)
    IN  /\ findCityIndex(g.cities, a) = -1
        /\ \A x \in xs :
              /\ addRoad(g, a, x) = Outcome(g, FALSE, MsgCitiesMissing)
              /\ addRoad(g, x, a) = Outcome(g, FALSE, MsgCitiesMissing)
        /\ \A x \in AllNames : \A v \in bs :
              /\ addBudget(g, a, x, v) = Outcome(g, FALSE, MsgCitiesMissing)
              /\ addBudget(g, x, a, v) = Outcome(g, FALSE, MsgCitiesMissing)
        /\ o.ret = TRUE
        /\ o.g.cities = Append(g.cities, [index |-> n + 1, name |-> a])
        /\ \A m \in 1 .. n + 1 :
              /\ o.g.roadMatrix[n + 1][m] = 0 /\ o.g.roadMatrix[m][n + 1] = 0
              /\ o.g.budgetMatrix[n + 1][m] = 0 /\ o.g.budgetMatrix[m][n + 1] = 0
        /\ g.cities[k] = [index |-> cities[k].index, name |-> b]
        /\ findCityIndex(o.g.cities, b) = cities[k].index
        /\ g.roadMatrix = roadMatrix
        /\ g.budgetMatrix = budgetMatrix
        /\ \A m \in 1 .. n :
              /\ o.g.roadMatrix[k][m] = roadMatrix[k][m]
              /\ o.g.roadMatrix[m][k] = roadMatrix[m][k]
              /\ o.g.budgetMatrix[k][m] = budgetMatrix[k][m]
              /\ o.g.budgetMatrix[m][k] = budgetMatrix[m][k]

\* C20 as stated: after a successful rename of a to b every addRoad and every
\* addBudget that mentions a fails as city not found, addCity(a) succeeds
\* with the index count + 1 and a zero row and column, and the roads and
\* budgets of the renamed city stay with b.
C20_RenameFreesName ==
    [][(op' = "editCity" /\ ret' = TRUE)
          => RenameFrees(city1', city2', AllNames, Budgets)]_vars

\* C20 amended: the same, for addRoad of a with a different name and for
\* addBudget with a budget that is not negative.
C20_RenameFreesNameOtherCity ==
    [][(op' = "editCity" /\ ret' = TRUE)
          => RenameFrees(city1', city2', AllNames \ {city1'}, 0 .. MaxBudget)]_vars

\* Kigali, which has the seeded road to Muhanga with its budget, was renamed
\* to Gisenyi and the name Kigali can be added again
C20_Witness ==
    /\ op = "editCity"
    /\ ret = TRUE
    /\ city1 = "Kigali"
    /\ city2 = "Gisenyi"
    /\ Len(cities) = Len(initialCities)
    /\ cities[1].name = "Gisenyi"
    /\ budgetMatrix[1][3] = 2860
    /\ addCity(G, "Kigali").ret = TRUE

====
